---------------------------- MODULE Spec2Model ----------------------------
(***************************************************************************)
(* Model of the monday worktree lifecycle: gitops.PrepareRepository,       *)
(* gitops.CreateWorktreeForIssue, gitops.CleanWorktrees and the bounded    *)
(* worker pool of Application.Run / Application.processIssue.              *)
(*                                                                         *)
(* Strings are sequences of one-character strings.  The filesystem under   *)
(* worktreeRoot, the shared repository and the issue tracker are the       *)
(* state; every external command (git, tracker call, terminal launch) is   *)
(* one step whose failure is a nondeterministic outcome.                   *)
(***************************************************************************)
EXTENDS Integers, Sequences, FiniteSets, TLC

\* ------------------------------------------------------------------ bounds

\* number of issue IDs on the command line of Application.Run
MaxIssues == 2

\* largest -concurrency value explored (the flag is any integer)
MaxConcurrency == 2

\* ages (days) at and above this value are not told apart
AgeCap == 10

\* days that pass in one step of the clock between two calls
TickDays == 7

\* the longest argument given to SanitizeBranchName
MaxLen == 3

\* default of the -cleanup-days flag
DefaultCleanupDays == 7

\* ----------------------------------------------------------------- strings

UpperLetters == {"A", "B", "M"}

LowerLetters == {"a", "b", "e", "f", "i", "m", "n", "s", "u"}

Digits == {"1", "2"}

\* the character class [a-zA-Z0-9\-_] of SanitizeBranchName
AllowedChars == UpperLetters \cup LowerLetters \cup Digits \cup {"-", "_"}

ToUpperChar(c) ==
    CASE c = "a" -> "A"
      [] c = "b" -> "B"
      [] c = "m" -> "M"
      [] OTHER -> c

ToUpper(s) == [i \in 1..Len(s) |-> ToUpperChar(s[i])]

\* strings.Trim(s, "-")
RECURSIVE TrimLeft(_)
TrimLeft(s) ==
    IF s # <<>> /\ Head(s) = "-" THEN TrimLeft(Tail(s)) ELSE s

RECURSIVE TrimRight(_)
TrimRight(s) ==
    IF s # <<>> /\ s[Len(s)] = "-" THEN TrimRight(SubSeq(s, 1, Len(s) - 1)) ELSE s

\* a trim that takes one hyphen at most from each end
Trim_OneEach(s) ==
    LET l == IF s # <<>> /\ Head(s) = "-" THEN Tail(s) ELSE s
    IN  IF l # <<>> /\ l[Len(l)] = "-" THEN SubSeq(l, 1, Len(l) - 1) ELSE l

Trim(s) == TrimRight(TrimLeft(s))

\* characters of each kind: letters, a digit, the two allowed signs and two
\* disallowed ones
SanitizeAlphabet == {"A", "a", "1", "-", "_", " ", "/"}

FallbackName == <<"i", "s", "s", "u", "e">>

\* a replacement that keeps every character
ReplaceDisallowed_Keep(s) == s

ReplaceDisallowed(s) ==
    [i \in 1..Len(s) |-> IF s[i] \in AllowedChars THEN s[i] ELSE "-"]

SanitizeBranchName(name) ==
    IF name = <<>> THEN FallbackName
    ELSE LET sanitized == Trim(ReplaceDisallowed(name))
         IN  IF sanitized = <<>> THEN FallbackName ELSE sanitized

\* regexp ^([A-Z]+)-(\d+)$ applied to strings.ToUpper(identifier)
MatchesIssueFormat(u) ==
    \E k \in 2..(Len(u) - 1) :
        /\ u[k] = "-"
        /\ \A i \in 1..(k - 1) : u[i] \in UpperLetters
        /\ \A i \in (k + 1)..Len(u) : u[i] \in Digits

\* parseIssueIdentifier: the canonical TEAM-NUMBER key, or <<>> on error
parseIssueIdentifier(identifier) ==
    LET u == ToUpper(identifier)
    IN  IF MatchesIssueFormat(u) THEN u ELSE <<>>

\* ------------------------------------------------------------ names, inputs

IdA1 == <<"A", "-", "1">>

Ida1 == <<"a", "-", "1">>

IdASp1 == <<"A", " ", "1">>

FileF == <<"f">>

MainBranch == <<"m", "a", "i", "n">>

MissingBranch == <<"n", "o", "n", "e">>

\* issue IDs given to Application.Run
RunIDs == {IdA1, Ida1}

\* issue IDs given to direct calls of CreateWorktreeForIssue
CallIDs == {IdA1, IdASp1}

\* names of the immediate children of worktreeRoot
Names == RunIDs \cup CallIDs \cup {FileF}

\* ioutil.ReadDir order (sorted by filename, byte order)
SortedNames == <<IdASp1, IdA1, Ida1, FileF>>

BaseBranches == {MainBranch, MissingBranch}

Thresholds == {-1, 0, DefaultCleanupDays}


\* ------------------------------------------------------------------- state

VARIABLES
    root,       \* what is at worktreeRoot: "none", "dir" or "file"
    entries,    \* the immediate children of worktreeRoot, by name
    repo,       \* the shared repository at repoPath
    cw,         \* CreateWorktreeForIssue: one call frame per caller
    cl,         \* CleanWorktrees: the call frame
    pr,         \* PrepareRepository: the call frame
    drv,        \* the direct caller of the gitops operations
    sn,         \* SanitizeBranchName: the argument and the results of a caller
    env,        \* the server process: which credentials its environment holds
    req,        \* the /trigger requests: what each carries, and its answer
    wf,         \* runWorkflow: one call frame per accepted request
    cwd,        \* the server process: its current working directory
    clones,     \* the repositories cloned under the server's start directory
    cfg,        \* Application.Run: the parsed configuration and app.DryRun
    main,       \* Application.Run: the main goroutine
    wk,         \* Application.Run: one goroutine per issue
    sem,        \* errgroup: the goroutines holding a slot of the limit
    mu,         \* sync.Mutex: 0 when free, else the goroutine holding it
    counters,   \* successCount and errorCount
    tracker,    \* the issues marked In Progress in the tracker
    launched    \* the goroutines whose terminal launch succeeded

fsVars == <<root, entries, repo>>

callVars == <<cw, cl, pr>>

runVars == <<cfg, main, wk, sem, mu, counters, tracker, launched>>

srvVars == <<env, req, wf, cwd, clones>>

vars == <<root, entries, repo, cw, cl, pr, drv, sn, env, req, wf, cwd, clones,
          cfg, main, wk, sem, mu, counters, tracker, launched>>

Callers == 1..MaxIssues

NoEntry == [kind |-> "none", age |-> 0, owner |-> 0, feature |-> FALSE]

DirEntry(a, o) == [kind |-> "dir", age |-> a, owner |-> o, feature |-> FALSE]

FileEntry(a) == [kind |-> "file", age |-> a, owner |-> 0, feature |-> FALSE]

Min(a, b) == IF a < b THEN a ELSE b

\* os.Stat(filepath.Join(worktreeRoot, name)) returns err == nil
StatOK(name) == root = "dir" /\ entries[name].kind # "none"

\* git rev-parse --git-dir succeeds in repoPath
validateGitRepository == repo.valid

\* git show-ref --verify --quiet refs/heads/<branchName>
branchExists(branchName) == repo.valid /\ branchName \in repo.branches

\* git remote prints at least one remote
hasRemote == repo.valid /\ repo.remote

\* ------------------------------------------------ the HTTP server, idle

\* the /trigger requests the server receives
Requests == {1, 2}

\* the server's start directory, as a path relative to itself
StartDir == <<>>

IdleRequest == [method |-> "POST", key |-> TRUE, body |-> "ok", repo |-> "",
                pc |-> "closed", status |-> 0]

IdleWorkflow == [pc |-> "idle", repo |-> "", err |-> "", did |-> {}, warned |-> {},
                 home |-> <<>>, cloneDir |-> <<>>, foreign |-> {}, starts |-> 0]

\* no server is running
ServerIdle ==
    /\ env = [linear |-> TRUE, github |-> TRUE, agent |-> TRUE, variant |-> "pr"]
    /\ req = [r \in Requests |-> IdleRequest]
    /\ wf = [r \in Requests |-> IdleWorkflow]
    /\ cwd = StartDir
    /\ clones = {}

\* everything but the server
otherVars == <<fsVars, callVars, drv, sn, runVars>>

\* ------------------------------------------------- makeTriggerHandler

\* a handler that looks at the key before the method
TriggerStatus_KeyFirst(r) ==
    IF ~req[r].key THEN 401
    ELSE IF req[r].method # "POST" THEN 405
    ELSE IF req[r].body = "undecodable" THEN 400
    ELSE IF req[r].body \in {"noid", "nourl"} THEN 400
    ELSE 202

\* the answer the handler's checks give request r: method, key, body, fields
TriggerStatus(r) ==
    IF req[r].method # "POST" THEN 405
    ELSE IF ~req[r].key THEN 401
    ELSE IF req[r].body = "undecodable" THEN 400
    ELSE IF req[r].body \in {"noid", "nourl"} THEN 400
    ELSE 202

\* the go statement of the handler: runWorkflow(req.LinearID, req.GithubURL)
StartWorkflow(r) ==
    wf' = [wf EXCEPT ![r] = [IdleWorkflow EXCEPT !.pc = "creds", !.repo = req[r].repo,
                                                 !.starts = wf[r].starts + 1]]

\* the handler up to its go statement: a rejected request is answered here
TH_Handle(r) ==
    /\ req[r].pc = "received"
    /\ IF TriggerStatus(r) = 202
       THEN /\ StartWorkflow(r)
            /\ req' = [req EXCEPT ![r].pc = "respond"]
       ELSE /\ req' = [req EXCEPT ![r].pc = "closed", ![r].status = TriggerStatus(r)]
            /\ UNCHANGED wf
    /\ UNCHANGED <<env, cwd, clones, otherVars>>

\* the handler after its go statement: 202 and the 'started' response
TH_Respond(r) ==
    /\ req[r].pc = "respond"
    /\ req' = [req EXCEPT ![r].pc = "closed", ![r].status = 202]
    /\ UNCHANGED <<env, wf, cwd, clones, otherVars>>

\* ---------------------------------------------------------- runWorkflow

\* runWorkflow returns err
WorkflowReturn(w, err) == wf' = [wf EXCEPT ![w].pc = "done", ![w].err = err]

\* the three os.Getenv checks
RW_Creds(w) ==
    /\ wf[w].pc = "creds"
    /\ IF env.linear /\ env.github /\ env.agent
       THEN wf' = [wf EXCEPT ![w].pc = "fetch"]
       ELSE WorkflowReturn(w, "MissingCredential")
    /\ UNCHANGED <<env, req, cwd, clones, otherVars>>

\* linearClient.FetchIssueDetails
RW_Fetch(w) ==
    /\ wf[w].pc = "fetch"
    /\ \E ok \in BOOLEAN :
         IF ok
         THEN wf' = [wf EXCEPT ![w].pc = "mark", ![w].did = @ \cup {"fetch"}]
         ELSE WorkflowReturn(w, "FetchFailed")
    /\ UNCHANGED <<env, req, cwd, clones, otherVars>>

\* a status update whose failure ends the workflow
RW_Mark_Abort(w) ==
    /\ wf[w].pc = "mark"
    /\ \E ok \in BOOLEAN :
         IF ok
         THEN wf' = [wf EXCEPT ![w].pc = "clone", ![w].did = @ \cup {"mark"}]
         ELSE WorkflowReturn(w, "MarkFailed")
    /\ UNCHANGED <<env, req, cwd, clones, otherVars>>

\* linearClient.MarkIssueInProgress: a failure is logged as a warning
RW_Mark(w) ==
    /\ wf[w].pc = "mark"
    /\ \E ok \in BOOLEAN :
         IF ok
         THEN wf' = [wf EXCEPT ![w].pc = "clone", ![w].did = @ \cup {"mark"}]
         ELSE wf' = [wf EXCEPT ![w].pc = "clone", ![w].warned = @ \cup {"mark"}]
    /\ UNCHANGED <<env, req, cwd, clones, otherVars>>

\* workDir = filepath.Join(".", repoName), resolved against the process's
\* current directory
WorkDir(w) == Append(cwd, wf[w].repo)

\* git clone <repoURL>, run in the current directory: refused when the
\* directory of that name exists
RW_Clone(w) ==
    /\ wf[w].pc = "clone"
    /\ \E ok \in BOOLEAN :
         IF ok /\ WorkDir(w) \notin clones
         THEN /\ clones' = clones \cup {WorkDir(w)}
              /\ wf' = [wf EXCEPT ![w].pc = "chdir", ![w].did = @ \cup {"clone"},
                                  ![w].home = WorkDir(w), ![w].cloneDir = cwd]
         ELSE /\ wf' = [wf EXCEPT ![w].pc = "done", ![w].err = "CloneFailed",
                                  ![w].cloneDir = cwd]
              /\ UNCHANGED clones
    /\ UNCHANGED <<env, req, cwd, otherVars>>

\* os.Chdir(workDir): changes the current directory of the whole process
RW_Chdir(w) ==
    /\ wf[w].pc = "chdir"
    /\ IF WorkDir(w) \in clones
       THEN /\ cwd' = WorkDir(w)
            /\ wf' = [wf EXCEPT ![w].pc = "branch"]
       ELSE /\ WorkflowReturn(w, "ChdirFailed")
            /\ UNCHANGED cwd
    /\ UNCHANGED <<env, req, clones, otherVars>>

\* a command run without an explicit directory: it runs in the current
\* directory of the process, whichever workflow selected it
RunInCwd(w, at, cmd, next, err) ==
    /\ wf[w].pc = at
    /\ \E ok \in BOOLEAN :
         wf' = [wf EXCEPT ![w].pc = IF ok THEN next ELSE "done",
                          ![w].err = IF ok THEN "" ELSE err,
                          ![w].did = IF ok THEN @ \cup {cmd} ELSE @,
                          ![w].foreign = IF cwd # wf[w].home THEN @ \cup {cmd} ELSE @]
    /\ UNCHANGED <<env, req, cwd, clones, otherVars>>

\* git checkout -b <branchName>
RW_Branch(w) == RunInCwd(w, "branch", "checkout", "agent", "BranchFailed")

\* the agent's command line tool
RW_Agent(w) == RunInCwd(w, "agent", "agent", "stage", "AgentFailed")

\* git add . (between git status and git diff, whose failures are logged)
RW_Stage(w) == RunInCwd(w, "stage", "add", "commit", "StageFailed")

\* git commit -m
RW_Commit(w) == RunInCwd(w, "commit", "commit", "push", "CommitFailed")

\* git push --set-upstream origin <branchName>
RW_Push(w) == RunInCwd(w, "push", "push", "publish", "PushFailed")

\* the last step: gh pr create, whose failure fails the workflow, or in the
\* other variant the progress comment, whose failure is logged
RW_Publish(w) ==
    /\ wf[w].pc = "publish"
    /\ \E ok \in BOOLEAN :
         IF env.variant = "pr"
         THEN wf' = [wf EXCEPT ![w].pc = "done",
                              ![w].err = IF ok THEN "" ELSE "PullRequestFailed",
                              ![w].did = IF ok THEN @ \cup {"pr"} ELSE @,
                              ![w].foreign = IF cwd # wf[w].home THEN @ \cup {"pr"} ELSE @]
         ELSE wf' = [wf EXCEPT ![w].pc = "done",
                              ![w].did = IF ok THEN @ \cup {"comment"} ELSE @,
                              ![w].warned = IF ok THEN @ ELSE @ \cup {"comment"}]
    /\ UNCHANGED <<env, req, cwd, clones, otherVars>>

\* a caller of SanitizeBranchName that has not called yet
IdleSanitize == [pc |-> "idle", in |-> <<>>, out |-> <<>>, again |-> <<>>]

\* the caller applies SanitizeBranchName to its argument
SN_Apply ==
    /\ sn.pc = "call"
    /\ sn' = [sn EXCEPT !.pc = "once", !.out = SanitizeBranchName(sn.in)]
    /\ UNCHANGED <<fsVars, callVars, drv, runVars, srvVars>>

\* the caller applies SanitizeBranchName to the result
SN_Reapply ==
    /\ sn.pc = "once"
    /\ sn' = [sn EXCEPT !.pc = "twice", !.again = SanitizeBranchName(sn.out)]
    /\ UNCHANGED <<fsVars, callVars, drv, runVars, srvVars>>

\* ------------------------------------------- gitops.CreateWorktreeForIssue

IdleCreate == [pc |-> "idle", id |-> <<>>, base |-> <<>>, path |-> <<>>, err |-> ""]

CreateReturn(w, path, err) ==
    cw' = [cw EXCEPT ![w] = [@ EXCEPT !.pc = "ret", !.path = path, !.err = err]]

CreateGoto(w, pc) == cw' = [cw EXCEPT ![w].pc = pc]

\* the caller enters CreateWorktreeForIssue(worktreeRoot, repoPath, id, base)
CreateCall(w, id, base) ==
    cw' = [cw EXCEPT ![w] = [pc |-> "validate", id |-> id, base |-> base,
                             path |-> <<>>, err |-> ""]]

\* CW_Validate that looks at the target path before the repository
CW_Validate_PathFirst(w) ==
    /\ cw[w].pc = "validate"
    /\ IF StatOK(cw[w].id)
       THEN CreateReturn(w, <<>>, "AlreadyExists")
       ELSE IF validateGitRepository
       THEN CreateGoto(w, "branch")
       ELSE CreateReturn(w, <<>>, "NotARepository")
    /\ UNCHANGED <<fsVars, cl, pr, drv, runVars, sn, srvVars>>

CW_Validate(w) ==
    /\ cw[w].pc = "validate"
    /\ IF validateGitRepository
       THEN CreateGoto(w, "branch")
       ELSE CreateReturn(w, <<>>, "NotARepository")
    /\ UNCHANGED <<fsVars, cl, pr, drv, runVars, sn, srvVars>>

CW_BranchExists(w) ==
    /\ cw[w].pc = "branch"
    /\ IF branchExists(cw[w].base)
       THEN CreateGoto(w, "stat")
       ELSE CreateReturn(w, <<>>, "BranchNotFound")
    /\ UNCHANGED <<fsVars, cl, pr, drv, runVars, sn, srvVars>>

\* CW_Stat without the existence check
CW_Stat_NoCheck(w) ==
    /\ cw[w].pc = "stat"
    /\ CreateGoto(w, "mkdir")
    /\ UNCHANGED <<fsVars, cl, pr, drv, runVars, sn, srvVars>>

CW_Stat(w) ==
    /\ cw[w].pc = "stat"
    /\ IF StatOK(cw[w].id)
       THEN CreateReturn(w, <<>>, "AlreadyExists")
       ELSE CreateGoto(w, "mkdir")
    /\ UNCHANGED <<fsVars, cl, pr, drv, runVars, sn, srvVars>>

CW_MkdirAll(w) ==
    /\ cw[w].pc = "mkdir"
    /\ IF root = "file"
       THEN /\ CreateReturn(w, <<>>, "MkdirFailed")
            /\ UNCHANGED root
       ELSE /\ CreateGoto(w, "add")
            /\ root' = "dir"
    /\ UNCHANGED <<entries, repo, cl, pr, drv, runVars, sn, srvVars>>

\* GitWorktreeAdd that creates the branch with git checkout -b in repoPath
GitWorktreeAdd_CheckoutInRepo(w, branch, name, base, diskOK) ==
    IF ~branchExists(base) \/ branch \in repo.branches
    THEN /\ CreateReturn(w, <<>>, "WorktreeAddFailed")
         /\ UNCHANGED <<entries, repo>>
    ELSE IF entries[name].kind # "none" \/ name \in repo.registered \/ ~diskOK
    THEN /\ CreateReturn(w, <<>>, "WorktreeAddFailed")
         /\ repo' = [repo EXCEPT !.branches = @ \cup {branch}, !.head = branch]
         /\ UNCHANGED entries
    ELSE /\ CreateReturn(w, name, "")
         /\ repo' = [repo EXCEPT !.branches = @ \cup {branch}, !.head = branch,
                                 !.registered = @ \cup {name}]
         /\ entries' = [entries EXCEPT ![name] = DirEntry(0, w)]

\* GitWorktreeAdd with -B and --force: an existing branch or path is overwritten
GitWorktreeAdd_Force(w, branch, name, base, diskOK) ==
    /\ CreateReturn(w, name, "")
    /\ repo' = [repo EXCEPT !.branches = @ \cup {branch},
                            !.registered = @ \cup {name}]
    /\ entries' = [entries EXCEPT ![name] = DirEntry(0, w)]

\* git worktree add -b <branch> <path> <base>, run in repoPath: the branch is
\* created first (refused when it exists), then the path is validated, then
\* the working tree is written and registered.
GitWorktreeAdd(w, branch, name, base, diskOK) ==
    IF ~branchExists(base) \/ branch \in repo.branches
    THEN /\ CreateReturn(w, <<>>, "WorktreeAddFailed")
         /\ UNCHANGED <<entries, repo>>
    ELSE IF entries[name].kind # "none" \/ name \in repo.registered \/ ~diskOK
    THEN /\ CreateReturn(w, <<>>, "WorktreeAddFailed")
         /\ repo' = [repo EXCEPT !.branches = @ \cup {branch}]
         /\ UNCHANGED entries
    ELSE /\ CreateReturn(w, name, "")
         /\ repo' = [repo EXCEPT !.branches = @ \cup {branch},
                                 !.registered = @ \cup {name}]
         /\ entries' = [entries EXCEPT ![name] = DirEntry(0, w)]

CW_WorktreeAdd(w) ==
    /\ cw[w].pc = "add"
    /\ \E diskOK \in BOOLEAN :
         GitWorktreeAdd(w, SanitizeBranchName(cw[w].id), cw[w].id, cw[w].base, diskOK)
    /\ UNCHANGED <<root, cl, pr, drv, runVars, sn, srvVars>>

CreateStep(w) ==
    \/ CW_Validate(w)
    \/ CW_BranchExists(w)
    \/ CW_Stat(w)
    \/ CW_MkdirAll(w)
    \/ CW_WorktreeAdd(w)

\* --------------------------------------------------- gitops.CleanWorktrees

IdleClean == [pc |-> "idle", days |-> 0, dry |-> FALSE, list |-> <<>>, i |-> 0,
              removedCount |-> 0, err |-> ""]

\* the caller enters CleanWorktrees(worktreeRoot, repoPath, thresholdDays, dryRun)
CleanCall(thresholdDays, dryRun) ==
    cl' = [IdleClean EXCEPT !.pc = "threshold", !.days = thresholdDays, !.dry = dryRun]

CleanReturn(err) == cl' = [cl EXCEPT !.pc = "ret", !.err = err]

\* modification times and the cutoff, in days relative to time.Now() = 0
ModTime(age) == 0 - age

Cutoff(thresholdDays) == 0 - thresholdDays

\* a comparison that also holds at the cutoff
Before_OrEqual(t, u) == t <= u

Before(t, u) == t < u

\* ioutil.ReadDir(worktreeRoot): the entries present, sorted by name
ReadDir ==
    LET present == SelectSeq(SortedNames, LAMBDA n : entries[n].kind # "none")
    IN  [k \in 1..Len(present) |->
            [name |-> present[k],
             isDir |-> entries[present[k]].kind = "dir",
             modTime |-> ModTime(entries[present[k]].age)]]

\* CL_Threshold without the check of thresholdDays
CL_Threshold_Unchecked ==
    /\ cl.pc = "threshold"
    /\ cl' = [cl EXCEPT !.pc = "statroot"]
    /\ UNCHANGED <<fsVars, cw, pr, drv, runVars, sn, srvVars>>

CL_Threshold ==
    /\ cl.pc = "threshold"
    /\ IF cl.days < 0
       THEN CleanReturn("InvalidThreshold")
       ELSE cl' = [cl EXCEPT !.pc = "statroot"]
    /\ UNCHANGED <<fsVars, cw, pr, drv, runVars, sn, srvVars>>

\* CL_StatRoot that goes on to read a worktreeRoot that does not exist
CL_StatRoot_NoEarlyReturn ==
    /\ cl.pc = "statroot"
    /\ cl' = [cl EXCEPT !.pc = "readdir"]
    /\ UNCHANGED <<fsVars, cw, pr, drv, runVars, sn, srvVars>>

CL_StatRoot ==
    /\ cl.pc = "statroot"
    /\ IF root = "none"
       THEN CleanReturn("")
       ELSE cl' = [cl EXCEPT !.pc = "readdir"]
    /\ UNCHANGED <<fsVars, cw, pr, drv, runVars, sn, srvVars>>

CL_ReadDir ==
    /\ cl.pc = "readdir"
    /\ IF root # "dir"
       THEN CleanReturn("ReadDirFailed")
       ELSE cl' = [cl EXCEPT !.pc = "loop", !.list = ReadDir, !.i = 1]
    /\ UNCHANGED <<fsVars, cw, pr, drv, runVars, sn, srvVars>>

\* LoopBody that goes on to the next entry when a removal fails
LoopBody_SkipFailed(e, removeOK) ==
    IF e.isDir /\ Before(e.modTime, Cutoff(cl.days))
    THEN IF cl.dry
         THEN /\ cl' = [cl EXCEPT !.i = @ + 1, !.removedCount = @ + 1]
              /\ UNCHANGED entries
         ELSE IF removeOK
         THEN /\ entries' = [entries EXCEPT ![e.name] = NoEntry]
              /\ cl' = [cl EXCEPT !.i = @ + 1, !.removedCount = @ + 1]
         ELSE /\ cl' = [cl EXCEPT !.i = @ + 1]
              /\ UNCHANGED entries
    ELSE /\ cl' = [cl EXCEPT !.i = @ + 1]
         /\ UNCHANGED entries

\* LoopBody without the dryRun branch
LoopBody_IgnoreDryRun(e, removeOK) ==
    IF e.isDir /\ Before(e.modTime, Cutoff(cl.days))
    THEN IF removeOK
         THEN /\ entries' = [entries EXCEPT ![e.name] = NoEntry]
              /\ cl' = [cl EXCEPT !.i = @ + 1, !.removedCount = @ + 1]
         ELSE /\ CleanReturn("RemovalFailed")
              /\ UNCHANGED entries
    ELSE /\ cl' = [cl EXCEPT !.i = @ + 1]
         /\ UNCHANGED entries

\* one iteration of the loop over the entries; removeOK is the outcome of
\* os.RemoveAll when it is called
LoopBody(e, removeOK) ==
    IF ~e.isDir
    THEN /\ cl' = [cl EXCEPT !.i = @ + 1]
         /\ UNCHANGED entries
    ELSE IF Before(e.modTime, Cutoff(cl.days))
    THEN IF cl.dry
         THEN /\ cl' = [cl EXCEPT !.i = @ + 1, !.removedCount = @ + 1]
              /\ UNCHANGED entries
         ELSE IF removeOK
         THEN /\ entries' = [entries EXCEPT ![e.name] = NoEntry]
              /\ cl' = [cl EXCEPT !.i = @ + 1, !.removedCount = @ + 1]
         ELSE /\ CleanReturn("RemovalFailed")
              /\ UNCHANGED entries
    ELSE /\ cl' = [cl EXCEPT !.i = @ + 1]
         /\ UNCHANGED entries

CL_Entry ==
    /\ cl.pc = "loop"
    /\ cl.i <= Len(cl.list)
    /\ \E removeOK \in BOOLEAN : LoopBody(cl.list[cl.i], removeOK)
    /\ UNCHANGED <<root, repo, cw, pr, drv, runVars, sn, srvVars>>

\* CL_LoopEnd that prunes only after a removal
CL_LoopEnd_PruneAfterRemoval ==
    /\ cl.pc = "loop"
    /\ cl.i > Len(cl.list)
    /\ IF cl.removedCount > 0
       THEN cl' = [cl EXCEPT !.pc = "prune"]
       ELSE CleanReturn("")
    /\ UNCHANGED <<fsVars, cw, pr, drv, runVars, sn, srvVars>>

CL_LoopEnd ==
    /\ cl.pc = "loop"
    /\ cl.i > Len(cl.list)
    /\ cl' = [cl EXCEPT !.pc = "prune"]
    /\ UNCHANGED <<fsVars, cw, pr, drv, runVars, sn, srvVars>>

\* CL_PruneStat that skips a dry run before it looks for the .git entry
CL_PruneStat_DryFirst ==
    /\ cl.pc = "prune"
    /\ IF cl.dry
       THEN CleanReturn("")
       ELSE IF ~repo.gitDir
       THEN CleanReturn("GitDirNotFound")
       ELSE cl' = [cl EXCEPT !.pc = "prunerun"]
    /\ UNCHANGED <<fsVars, cw, pr, drv, runVars, sn, srvVars>>

\* pruneGitWorktrees up to the decision to run the command
CL_PruneStat ==
    /\ cl.pc = "prune"
    /\ IF ~repo.gitDir
       THEN CleanReturn("GitDirNotFound")
       ELSE IF cl.dry
       THEN CleanReturn("")
       ELSE cl' = [cl EXCEPT !.pc = "prunerun"]
    /\ UNCHANGED <<fsVars, cw, pr, drv, runVars, sn, srvVars>>

\* git worktree prune, run in repoPath: forgets the registered worktrees
\* whose directory is gone
GitWorktreePrune ==
    IF ~repo.valid
    THEN /\ CleanReturn("PruneFailed")
         /\ UNCHANGED repo
    ELSE /\ CleanReturn("")
         /\ repo' = [repo EXCEPT !.registered =
                        {n \in @ : root = "dir" /\ entries[n].kind = "dir"}]

CL_PruneRun ==
    /\ cl.pc = "prunerun"
    /\ GitWorktreePrune
    /\ UNCHANGED <<root, entries, cw, pr, drv, runVars, sn, srvVars>>

CleanStep ==
    \/ CL_Threshold
    \/ CL_StatRoot
    \/ CL_ReadDir
    \/ CL_Entry
    \/ CL_LoopEnd
    \/ CL_PruneStat
    \/ CL_PruneRun

\* ----------------------------------------------- gitops.PrepareRepository

IdlePrepare == [pc |-> "idle", base |-> <<>>, err |-> ""]

PrepareCall(base) == pr' = [pc |-> "validate", base |-> base, err |-> ""]

PrepareReturn(err) == pr' = [pr EXCEPT !.pc = "ret", !.err = err]

PR_Validate ==
    /\ pr.pc = "validate"
    /\ IF validateGitRepository
       THEN pr' = [pr EXCEPT !.pc = "branch"]
       ELSE PrepareReturn("NotARepository")
    /\ UNCHANGED <<fsVars, cw, cl, drv, runVars, sn, srvVars>>

PR_BranchExists ==
    /\ pr.pc = "branch"
    /\ IF branchExists(pr.base)
       THEN pr' = [pr EXCEPT !.pc = "checkout"]
       ELSE PrepareReturn("BranchNotFound")
    /\ UNCHANGED <<fsVars, cw, cl, drv, runVars, sn, srvVars>>

\* git checkout <baseBranch>, run in repoPath
PR_Checkout ==
    /\ pr.pc = "checkout"
    /\ \E ok \in BOOLEAN :
         IF ok
         THEN /\ repo' = [repo EXCEPT !.head = pr.base]
              /\ pr' = [pr EXCEPT !.pc = "pull"]
         ELSE /\ PrepareReturn("CheckoutFailed")
              /\ UNCHANGED repo
    /\ UNCHANGED <<root, entries, cw, cl, drv, runVars, sn, srvVars>>

\* PR_Pull that runs git pull without asking for a remote
PR_Pull_Always ==
    /\ pr.pc = "pull"
    /\ \E ok \in BOOLEAN :
         IF ok /\ hasRemote
         THEN /\ repo' = [repo EXCEPT !.synced = TRUE]
              /\ PrepareReturn("")
         ELSE /\ PrepareReturn("SyncFailed")
              /\ UNCHANGED repo
    /\ UNCHANGED <<root, entries, cw, cl, drv, runVars, sn, srvVars>>

\* git pull, run in repoPath only when a remote is configured
PR_Pull ==
    /\ pr.pc = "pull"
    /\ IF hasRemote
       THEN \E ok \in BOOLEAN :
              IF ok
              THEN /\ repo' = [repo EXCEPT !.synced = TRUE]
                   /\ PrepareReturn("")
              ELSE /\ PrepareReturn("SyncFailed")
                   /\ UNCHANGED repo
       ELSE /\ PrepareReturn("")
            /\ UNCHANGED repo
    /\ UNCHANGED <<root, entries, cw, cl, drv, runVars, sn, srvVars>>

PrepareStep ==
    \/ PR_Validate
    \/ PR_BranchExists
    \/ PR_Checkout
    \/ PR_Pull

\* ------------------------------------------ direct calls of the operations

IdleDriver == [pc |-> "idle", last |-> [op |-> "none"], snap |-> <<>>]

DrvCreate ==
    /\ drv.pc = "idle"
    /\ \E id \in CallIDs, base \in BaseBranches : CreateCall(1, id, base)
    /\ drv' = [drv EXCEPT !.pc = "create", !.snap = fsVars]
    /\ UNCHANGED <<fsVars, cl, pr, runVars, sn, srvVars>>

DrvCreateDone ==
    /\ drv.pc = "create"
    /\ cw[1].pc = "ret"
    /\ drv' = [pc |-> "idle", snap |-> <<>>,
               last |-> [op |-> "create", id |-> cw[1].id, base |-> cw[1].base,
                         err |-> cw[1].err]]
    /\ cw' = [cw EXCEPT ![1] = IdleCreate]
    /\ UNCHANGED <<fsVars, cl, pr, runVars, sn, srvVars>>

DrvClean ==
    /\ drv.pc = "idle"
    /\ \E days \in Thresholds, dry \in BOOLEAN : CleanCall(days, dry)
    /\ drv' = [drv EXCEPT !.pc = "clean", !.snap = fsVars]
    /\ UNCHANGED <<fsVars, cw, pr, runVars, sn, srvVars>>

\* the worktrees of earlier create calls that the returning CleanWorktrees
\* call removed and whose registration is gone
Reclaimed ==
    {n \in Names : /\ drv.snap[2][n].kind = "dir" /\ drv.snap[2][n].owner # 0
                   /\ entries[n].kind = "none" /\ n \notin repo.registered}

DrvCleanDone ==
    /\ drv.pc = "clean"
    /\ cl.pc = "ret"
    /\ drv' = [pc |-> "idle", snap |-> <<>>,
               last |-> [op |-> "clean", err |-> cl.err, removed |-> Reclaimed]]
    /\ cl' = IdleClean
    /\ UNCHANGED <<fsVars, cw, pr, runVars, sn, srvVars>>

DrvPrepare ==
    /\ drv.pc = "idle"
    /\ \E base \in BaseBranches : PrepareCall(base)
    /\ drv' = [drv EXCEPT !.pc = "prepare", !.snap = fsVars]
    /\ UNCHANGED <<fsVars, cw, cl, runVars, sn, srvVars>>

DrvPrepareDone ==
    /\ drv.pc = "prepare"
    /\ pr.pc = "ret"
    /\ drv' = [pc |-> "idle", snap |-> <<>>,
               last |-> [op |-> "prepare"]]
    /\ pr' = IdlePrepare
    /\ UNCHANGED <<fsVars, cw, cl, runVars, sn, srvVars>>

\* time passes between two calls: every entry grows older
Tick ==
    /\ drv.pc = "idle"
    /\ \E n \in Names : entries[n].kind # "none" /\ entries[n].age < AgeCap
    /\ entries' = [n \in Names |->
                     IF entries[n].kind = "none" THEN entries[n]
                     ELSE [entries[n] EXCEPT !.age = Min(@ + TickDays, AgeCap)]]
    /\ UNCHANGED <<root, repo, cw, cl, pr, drv, runVars, sn, srvVars>>

\* ------------------------------------------------------- Application.Run

NumIssues == Len(cfg.ids)

Workers == 1..NumIssues

IdleWorker ==
    [pc |-> "queued", err |-> "", path |-> <<>>, tmp |-> 0, ret |-> "", launches |-> 0]

RunReturn(err) == main' = [main EXCEPT !.pc = "done", !.err = err]

\* cleanup mode, the API key check and the call of the automatic cleanup
RunStart ==
    /\ main.pc = "start"
    /\ IF cfg.cleanup
       THEN /\ CleanCall(cfg.cleanupDays, cfg.dryRun)
            /\ main' = [main EXCEPT !.pc = "cleanonly"]
       ELSE IF ~cfg.apiKey
       THEN /\ RunReturn("NoAPIKey")
            /\ UNCHANGED cl
       ELSE /\ CleanCall(cfg.cleanupDays, cfg.dryRun)
            /\ main' = [main EXCEPT !.pc = "cleanup"]
    /\ UNCHANGED <<fsVars, cw, pr, drv, cfg, wk, sem, mu, counters, tracker, launched, sn, srvVars>>

RunCleanOnlyDone ==
    /\ main.pc = "cleanonly"
    /\ cl.pc = "ret"
    /\ RunReturn(cl.err)
    /\ cl' = IdleClean
    /\ UNCHANGED <<fsVars, cw, pr, drv, cfg, wk, sem, mu, counters, tracker, launched, sn, srvVars>>

\* RunCleanupDone without the check of the cleanup's error
RunCleanupDone_Unchecked ==
    /\ main.pc = "cleanup"
    /\ cl.pc = "ret"
    /\ cl' = IdleClean
    /\ main' = [main EXCEPT !.pc = "prepare"]
    /\ PrepareCall(cfg.baseBranch)
    /\ UNCHANGED <<fsVars, cw, drv, cfg, wk, sem, mu, counters, tracker, launched, sn, srvVars>>

\* the automatic cleanup has returned; PrepareRepository is called
RunCleanupDone ==
    /\ main.pc = "cleanup"
    /\ cl.pc = "ret"
    /\ cl' = IdleClean
    /\ IF cl.err # ""
       THEN /\ RunReturn("CleanupFailed")
            /\ UNCHANGED pr
       ELSE /\ main' = [main EXCEPT !.pc = "prepare"]
            /\ PrepareCall(cfg.baseBranch)
    /\ UNCHANGED <<fsVars, cw, drv, cfg, wk, sem, mu, counters, tracker, launched, sn, srvVars>>

\* PrepareRepository has returned; app.DryRun is settled and the group made
RunPrepareDone ==
    /\ main.pc = "prepare"
    /\ pr.pc = "ret"
    /\ pr' = IdlePrepare
    /\ IF pr.err # ""
       THEN /\ RunReturn("PrepareFailed")
            /\ UNCHANGED cfg
       ELSE /\ main' = [main EXCEPT !.pc = "dispatch", !.i = 1]
            /\ cfg' = [cfg EXCEPT !.appDryRun = IF ~@ THEN cfg.dryRun ELSE @]
    /\ UNCHANGED <<fsVars, cw, cl, drv, wk, sem, mu, counters, tracker, launched, sn, srvVars>>

\* a group without a limit
SlotFree_NoLimit == TRUE

\* errgroup.SetLimit(n): n < 0 is no limit, otherwise at most n goroutines
SlotFree == cfg.concurrency < 0 \/ Cardinality(sem) < cfg.concurrency

\* g.Go: blocks until a slot is free, then starts the goroutine of issue i
RunGo ==
    /\ main.pc = "dispatch"
    /\ main.i <= NumIssues
    /\ SlotFree
    /\ sem' = sem \cup {main.i}
    /\ wk' = [wk EXCEPT ![main.i].pc = "fetch"]
    /\ main' = [main EXCEPT !.i = @ + 1]
    /\ UNCHANGED <<fsVars, callVars, drv, cfg, mu, counters, tracker, launched, sn, srvVars>>

RunLoopEnd ==
    /\ main.pc = "dispatch"
    /\ main.i > NumIssues
    /\ main' = [main EXCEPT !.pc = "wait"]
    /\ UNCHANGED <<fsVars, callVars, drv, cfg, wk, sem, mu, counters, tracker, launched, sn, srvVars>>

\* g.Wait returns the first non-nil error a goroutine returned; then the
\* counters decide the result of Run
RunWait ==
    /\ main.pc = "wait"
    /\ \A w \in Workers : wk[w].pc = "done"
    /\ IF \E w \in Workers : wk[w].ret # ""
       THEN RunReturn("GroupFailed")
       ELSE IF counters.error > 0
       THEN RunReturn("IssuesFailed")
       ELSE RunReturn("")
    /\ UNCHANGED <<fsVars, callVars, drv, cfg, wk, sem, mu, counters, tracker, launched, sn, srvVars>>

\* ---------------------------------------------- Application.processIssue

IssueOf(w) == cfg.ids[w]

\* processIssue returns err: the goroutine goes on to count the outcome
IssueReturn(w, err) == wk' = [wk EXCEPT ![w].pc = "lock", ![w].err = err]

\* Step 1: linearClient.FetchIssueDetails(issueID)
PI_Fetch(w) ==
    /\ wk[w].pc = "fetch"
    /\ \E ok \in BOOLEAN :
         IF parseIssueIdentifier(IssueOf(w)) # <<>> /\ ok
         THEN wk' = [wk EXCEPT ![w].pc = "mark"]
         ELSE IssueReturn(w, "FetchFailed")
    /\ UNCHANGED <<fsVars, callVars, drv, cfg, main, sem, mu, counters, tracker, launched, sn, srvVars>>

\* Step 2: linearClient.MarkIssueInProgress(issue)
PI_Mark(w) ==
    /\ wk[w].pc = "mark"
    /\ \E ok \in BOOLEAN :
         IF ok
         THEN /\ tracker' = tracker \cup {parseIssueIdentifier(IssueOf(w))}
              /\ wk' = [wk EXCEPT ![w].pc = "create"]
         ELSE /\ IssueReturn(w, "MarkFailed")
              /\ UNCHANGED tracker
    /\ UNCHANGED <<fsVars, callVars, drv, cfg, main, sem, mu, counters, launched, sn, srvVars>>

\* Step 3: gitops.CreateWorktreeForIssue is called
PI_Create(w) ==
    /\ wk[w].pc = "create"
    /\ CreateCall(w, IssueOf(w), cfg.baseBranch)
    /\ wk' = [wk EXCEPT ![w].pc = "creating"]
    /\ UNCHANGED <<fsVars, cl, pr, drv, cfg, main, sem, mu, counters, tracker, launched, sn, srvVars>>

\* PI_CreateDone that goes on to the feature file after a failed creation
PI_CreateDone_IgnoreError(w) ==
    /\ wk[w].pc = "creating"
    /\ cw[w].pc = "ret"
    /\ cw' = [cw EXCEPT ![w] = IdleCreate]
    /\ wk' = [wk EXCEPT ![w].pc = "feature", ![w].path = IssueOf(w)]
    /\ UNCHANGED <<fsVars, cl, pr, drv, cfg, main, sem, mu, counters, tracker, launched, sn, srvVars>>

\* PI_CreateDone that takes back the status update after a failed creation
PI_CreateDone_Compensate(w) ==
    /\ wk[w].pc = "creating"
    /\ cw[w].pc = "ret"
    /\ cw' = [cw EXCEPT ![w] = IdleCreate]
    /\ IF cw[w].err # ""
       THEN /\ IssueReturn(w, "CreateFailed")
            /\ tracker' = tracker \ {parseIssueIdentifier(IssueOf(w))}
       ELSE /\ wk' = [wk EXCEPT ![w].pc = "feature", ![w].path = cw[w].path]
            /\ UNCHANGED tracker
    /\ UNCHANGED <<fsVars, cl, pr, drv, cfg, main, sem, mu, counters, launched, sn, srvVars>>

PI_CreateDone(w) ==
    /\ wk[w].pc = "creating"
    /\ cw[w].pc = "ret"
    /\ cw' = [cw EXCEPT ![w] = IdleCreate]
    /\ IF cw[w].err # ""
       THEN IssueReturn(w, "CreateFailed")
       ELSE wk' = [wk EXCEPT ![w].pc = "feature", ![w].path = cw[w].path]
    /\ UNCHANGED <<fsVars, cl, pr, drv, cfg, main, sem, mu, counters, tracker, launched, sn, srvVars>>

\* Step 4: gitops.CreateFeatureFile writes _feature.md into the worktree
PI_Feature(w) ==
    /\ wk[w].pc = "feature"
    /\ \E ok \in BOOLEAN :
         IF ok /\ StatOK(wk[w].path) /\ entries[wk[w].path].kind = "dir"
         THEN /\ entries' = [entries EXCEPT ![wk[w].path].feature = TRUE]
              /\ wk' = [wk EXCEPT ![w].pc = "launch"]
         ELSE /\ IssueReturn(w, "FeatureFailed")
              /\ UNCHANGED entries
    /\ UNCHANGED <<root, repo, callVars, drv, cfg, main, sem, mu, counters, tracker, launched, sn, srvVars>>

\* processIssue returns err after a call of the launcher
LaunchReturn(w, err) ==
    wk' = [wk EXCEPT ![w].pc = "lock", ![w].err = err, ![w].launches = @ + 1]

\* PI_Launch that calls the launcher in dry-run mode as well
PI_Launch_Always(w) ==
    /\ wk[w].pc = "launch"
    /\ \E ok \in BOOLEAN :
         IF ok
         THEN /\ launched' = launched \cup {w}
              /\ LaunchReturn(w, "")
         ELSE /\ LaunchReturn(w, "LaunchFailed")
              /\ UNCHANGED launched
    /\ UNCHANGED <<fsVars, callVars, drv, cfg, main, sem, mu, counters, tracker, sn, srvVars>>

\* PI_Launch that removes the worktree when the launch fails
PI_Launch_Rollback(w) ==
    /\ wk[w].pc = "launch"
    /\ IF ~cfg.appDryRun
       THEN \E ok \in BOOLEAN :
              IF ok
              THEN /\ launched' = launched \cup {w}
                   /\ LaunchReturn(w, "")
                   /\ UNCHANGED entries
              ELSE /\ LaunchReturn(w, "LaunchFailed")
                   /\ entries' = [entries EXCEPT ![wk[w].path] = NoEntry]
                   /\ UNCHANGED launched
       ELSE /\ IssueReturn(w, "")
            /\ UNCHANGED <<launched, entries>>
    /\ UNCHANGED <<root, repo, callVars, drv, cfg, main, sem, mu, counters, tracker, sn, srvVars>>

\* Step 5: macosRunner.LaunchFridayInMacOSTerminal unless app.DryRun
PI_Launch(w) ==
    /\ wk[w].pc = "launch"
    /\ IF ~cfg.appDryRun
       THEN \E ok \in BOOLEAN :
              IF ok
              THEN /\ launched' = launched \cup {w}
                   /\ LaunchReturn(w, "")
              ELSE /\ LaunchReturn(w, "LaunchFailed")
                   /\ UNCHANGED launched
       ELSE /\ IssueReturn(w, "")
            /\ UNCHANGED launched
    /\ UNCHANGED <<fsVars, callVars, drv, cfg, main, sem, mu, counters, tracker, sn, srvVars>>

\* ------------------------------------- the goroutine's counting of outcomes

\* a lock that does not exclude
MuLock_NoExclusion(w) == mu' = w

\* mu.Lock(): blocks while another goroutine holds the mutex
MuLock(w) ==
    /\ mu = 0
    /\ mu' = w

\* mu.Lock() and the read of errorCount++ or successCount++
G_Lock(w) ==
    /\ wk[w].pc = "lock"
    /\ MuLock(w)
    /\ wk' = [wk EXCEPT ![w].pc = "store",
                        ![w].tmp = IF wk[w].err # "" THEN counters.error
                                   ELSE counters.success]
    /\ UNCHANGED <<fsVars, callVars, drv, cfg, main, sem, counters, tracker, launched, sn, srvVars>>

\* a goroutine function that returns the error of processIssue
ClosureResult_Propagate(err) == err

\* the value the goroutine's function returns to the group
ClosureResult(err) == ""

\* the write of the incremented counter, mu.Unlock(), the return of the
\* function and the group's done(), which releases the slot
G_Store(w) ==
    /\ wk[w].pc = "store"
    /\ counters' = IF wk[w].err # ""
                   THEN [counters EXCEPT !.error = wk[w].tmp + 1]
                   ELSE [counters EXCEPT !.success = wk[w].tmp + 1]
    /\ mu' = 0
    /\ sem' = sem \ {w}
    /\ wk' = [wk EXCEPT ![w].pc = "done", ![w].tmp = 0,
                        ![w].ret = ClosureResult(wk[w].err)]
    /\ UNCHANGED <<fsVars, callVars, drv, cfg, main, tracker, launched, sn, srvVars>>

RunStep ==
    \/ RunStart
    \/ RunCleanOnlyDone
    \/ RunCleanupDone
    \/ RunPrepareDone
    \/ RunGo
    \/ RunLoopEnd
    \/ RunWait

\* ------------------------------------------------------- initial states

DevBranch == <<"d", "e", "v">>

NoEntries == [n \in Names |-> NoEntry]

\* a repository that git accepts, and a path that git rejects
ValidRepo(gitDir, remote, branches, dirs) ==
    [valid |-> TRUE, gitDir |-> gitDir, remote |-> remote, synced |-> FALSE,
     head |-> DevBranch, branches |-> branches, registered |-> dirs]

InvalidRepo(gitDir) ==
    [valid |-> FALSE, gitDir |-> gitDir, remote |-> FALSE, synced |-> FALSE,
     head |-> <<>>, branches |-> {}, registered |-> {}]

DirsOf(es) == {n \in Names : es[n].kind = "dir"}

\* the repositories: with or without a .git entry, a remote, a branch A-1 left
\* by an earlier run, and a registered worktree whose directory is gone
Repos(es) ==
    {ValidRepo(g, r, b, DirsOf(es) \cup stale) :
        g \in BOOLEAN, r \in BOOLEAN,
        b \in {{MainBranch, DevBranch}, {MainBranch, DevBranch, IdA1}},
        stale \in {{}, {Ida1}}}
    \cup {InvalidRepo(g) : g \in BOOLEAN}

\* what the direct calls may find under worktreeRoot
CallEntries ==
    {[NoEntries EXCEPT ![IdA1] = a, ![IdASp1] = b, ![FileF] = f] :
        a \in {NoEntry, DirEntry(DefaultCleanupDays, 0), DirEntry(10, 0)},
        b \in {NoEntry, DirEntry(3, 0), FileEntry(10)},
        f \in {NoEntry, FileEntry(10)}}

InitFrames ==
    /\ sn = IdleSanitize
    /\ ServerIdle
    /\ cw = [w \in Callers |-> IdleCreate]
    /\ cl = IdleClean
    /\ pr = IdlePrepare

InitRunIdle(c) ==
    /\ cfg = c
    /\ main = [pc |-> "start", i |-> 0, err |-> ""]
    /\ wk = [w \in Callers |-> IdleWorker]
    /\ sem = {}
    /\ mu = 0
    /\ counters = [success |-> 0, error |-> 0]
    /\ tracker = {}
    /\ launched = {}

DefaultConfig ==
    [ids |-> <<IdA1>>, concurrency |-> 1, dryRun |-> FALSE, appDryRun |-> FALSE,
     cleanup |-> FALSE, cleanupDays |-> DefaultCleanupDays, apiKey |-> TRUE,
     baseBranch |-> MainBranch]

InitCalls ==
    /\ root \in {"none", "dir", "file"}
    /\ entries \in IF root = "dir" THEN CallEntries ELSE {NoEntries}
    /\ repo \in Repos(entries)
    /\ InitFrames
    /\ drv = IdleDriver
    /\ InitRunIdle(DefaultConfig)

NextCalls ==
    \/ DrvCreate
    \/ DrvCreateDone
    \/ DrvClean
    \/ DrvCleanDone
    \/ DrvPrepare
    \/ DrvPrepareDone
    \/ Tick
    \/ CreateStep(1)
    \/ CleanStep
    \/ PrepareStep

\* the gitops operations called directly, one after the other, on every input
SpecCalls == InitCalls /\ [][NextCalls]_vars

\* the issue lists of the command line: 1..MaxIssues IDs, duplicates allowed,
\* the occurrences of the first ID before those of the second
IssueLists ==
    UNION {{[i \in 1..n |-> IF i <= k THEN IdA1 ELSE Ida1] : k \in 1..n} :
              n \in 1..MaxIssues}

\* <<cfg.DryRun, app.DryRun>>
DryModes == {<<FALSE, FALSE>>, <<TRUE, FALSE>>, <<FALSE, TRUE>>}

\* configurations that differ in what the pool does
PoolConfigs ==
    {[DefaultConfig EXCEPT !.ids = l, !.concurrency = c, !.dryRun = d[1],
                           !.appDryRun = d[2]] :
        l \in IssueLists, c \in (-1)..MaxConcurrency, d \in DryModes}

\* configurations that differ in what happens before the pool
EdgeConfigs ==
    {DefaultConfig,
     [DefaultConfig EXCEPT !.cleanupDays = -1],
     [DefaultConfig EXCEPT !.cleanupDays = 0],
     [DefaultConfig EXCEPT !.baseBranch = MissingBranch],
     [DefaultConfig EXCEPT !.apiKey = FALSE]}
    \cup {[DefaultConfig EXCEPT !.ids = <<>>, !.cleanup = TRUE, !.cleanupDays = t,
                                !.dryRun = d] :
            t \in Thresholds, d \in BOOLEAN}

OldWorktree == [NoEntries EXCEPT ![IdA1] = DirEntry(10, 0)]

RecentWorktree == [NoEntries EXCEPT ![IdA1] = DirEntry(3, 0)]

GoodRepo(es) == ValidRepo(TRUE, TRUE, {MainBranch, DevBranch}, DirsOf(es))

\* the inputs of a run: the configuration and what it finds on disk
RunInputs ==
    {[cfg |-> c, root |-> "none", entries |-> NoEntries, repo |-> GoodRepo(NoEntries)] :
        c \in PoolConfigs}
    \cup {[cfg |-> c, root |-> "dir", entries |-> OldWorktree,
           repo |-> GoodRepo(OldWorktree)] : c \in PoolConfigs}
    \cup {[cfg |-> c, root |-> "none", entries |-> NoEntries, repo |-> r] :
            c \in EdgeConfigs, r \in Repos(NoEntries)}
    \cup UNION {{[cfg |-> c, root |-> "dir", entries |-> es, repo |-> r] :
                    c \in EdgeConfigs, r \in Repos(es)} :
                  es \in {OldWorktree, RecentWorktree}}

Init ==
    /\ InitFrames
    /\ drv = IdleDriver
    /\ \E in \in RunInputs :
         /\ root = in.root
         /\ entries = in.entries
         /\ repo = in.repo
         /\ InitRunIdle(in.cfg)

Next ==
    \/ RunStep
    \/ \E w \in Workers : PI_Fetch(w)
    \/ \E w \in Workers : PI_Mark(w)
    \/ \E w \in Workers : PI_Create(w)
    \/ \E w \in Workers : PI_CreateDone(w)
    \/ \E w \in Workers : PI_Feature(w)
    \/ \E w \in Workers : PI_Launch(w)
    \/ \E w \in Workers : G_Lock(w)
    \/ \E w \in Workers : G_Store(w)
    \/ \E w \in Workers : CW_Validate(w)
    \/ \E w \in Workers : CW_BranchExists(w)
    \/ \E w \in Workers : CW_Stat(w)
    \/ \E w \in Workers : CW_MkdirAll(w)
    \/ \E w \in Workers : CW_WorktreeAdd(w)
    \/ CleanStep
    \/ PrepareStep

\* one execution of Application.Run
Spec == Init /\ [][Next]_vars

\* one execution in which the Go scheduler lets Run and its goroutines go on
\* as long as one of them can take a step, and every step terminates
SpecFair == Spec /\ WF_vars(Next)

\* the strings of at most MaxLen characters over SanitizeAlphabet
SanitizeInputs == UNION {[1..n -> SanitizeAlphabet] : n \in 0..MaxLen}

InitSanitize ==
    /\ root = "none"
    /\ entries = NoEntries
    /\ repo = GoodRepo(NoEntries)
    /\ cw = [w \in Callers |-> IdleCreate]
    /\ cl = IdleClean
    /\ pr = IdlePrepare
    /\ drv = IdleDriver
    /\ InitRunIdle(DefaultConfig)
    /\ \E x \in SanitizeInputs : sn = [IdleSanitize EXCEPT !.pc = "call", !.in = x]
    /\ ServerIdle

NextSanitize ==
    \/ SN_Apply
    \/ SN_Reapply

\* SanitizeBranchName applied to every input, and again to its result
SpecSanitize == InitSanitize /\ [][NextSanitize]_vars

RepoX == "x"

RepoY == "y"

\* what a /trigger request may carry
RequestKinds ==
    [method : {"GET", "POST"}, key : BOOLEAN,
     body : {"undecodable", "noid", "nourl", "ok"}, repo : {RepoX, RepoY},
     pc : {"received"}, status : {0}]

\* the environments of the server: every credential set, or one missing
Environments ==
    {e \in [linear : BOOLEAN, github : BOOLEAN, agent : BOOLEAN,
            variant : {"pr", "comment"}] :
        Cardinality({e.linear, e.github, e.agent} \cap {FALSE}) = 0
          \/ Cardinality({k \in {"linear", "github", "agent"} : ~e[k]}) = 1}

InitServer ==
    /\ root = "none"
    /\ entries = NoEntries
    /\ repo = GoodRepo(NoEntries)
    /\ cw = [w \in Callers |-> IdleCreate]
    /\ cl = IdleClean
    /\ pr = IdlePrepare
    /\ drv = IdleDriver
    /\ sn = IdleSanitize
    /\ InitRunIdle(DefaultConfig)
    /\ env \in Environments
    /\ req \in {q \in [Requests -> RequestKinds] : q[1].repo = RepoX}
    /\ wf = [r \in Requests |-> IdleWorkflow]
    /\ cwd = StartDir
    /\ clones = {}

NextServer ==
    \/ \E r \in Requests : TH_Handle(r)
    \/ \E r \in Requests : TH_Respond(r)
    \/ \E w \in Requests : RW_Creds(w)
    \/ \E w \in Requests : RW_Fetch(w)
    \/ \E w \in Requests : RW_Mark(w)
    \/ \E w \in Requests : RW_Clone(w)
    \/ \E w \in Requests : RW_Chdir(w)
    \/ \E w \in Requests : RW_Branch(w)
    \/ \E w \in Requests : RW_Agent(w)
    \/ \E w \in Requests : RW_Stage(w)
    \/ \E w \in Requests : RW_Commit(w)
    \/ \E w \in Requests : RW_Push(w)
    \/ \E w \in Requests : RW_Publish(w)

\* the HTTP server handling its requests, each in its own goroutine
SpecServer == InitServer /\ [][NextServer]_vars

\* ------------------------------------------------------------ properties

\* the worktreeRoot, its entries and the repository when the direct call began
SnapRoot == drv.snap[1]

SnapEntries == drv.snap[2]

SnapRepo == drv.snap[3]

\* the direct call of CreateWorktreeForIssue returns in this step
CreateReturns == drv.pc = "create" /\ drv'.pc = "idle"

\* C1: CreateWorktreeForIssue, called when an entry exists at
\* join(worktreeRoot, issueID), fails with an empty path and changes nothing
\* (the existence check returns 'already exists' without creating the root,
\* running git worktree add or creating a branch); a second call with the
\* arguments of a successful first call returns 'already exists' and leaves
\* the filesystem and the repository as they were.
C1_ExistingPathRejected ==
    [][ /\ (cw[1].pc = "stat" /\ StatOK(cw[1].id) /\ cw'[1] # cw[1])
            => /\ cw'[1].pc = "ret"
               /\ cw'[1].err = "AlreadyExists"
               /\ cw'[1].path = <<>>
               /\ fsVars' = fsVars
        /\ (CreateReturns /\ SnapRoot = "dir" /\ SnapEntries[cw[1].id].kind # "none")
            => /\ cw[1].err \in {"NotARepository", "BranchNotFound", "AlreadyExists"}
               /\ cw[1].path = <<>>
               /\ fsVars = drv.snap
               /\ (SnapRepo.valid /\ cw[1].base \in SnapRepo.branches)
                    => cw[1].err = "AlreadyExists"
        /\ (CreateReturns /\ drv.last.op = "create" /\ drv.last.err = ""
              /\ drv.last.id = cw[1].id /\ drv.last.base = cw[1].base)
            => /\ cw[1].err = "AlreadyExists"
               /\ cw[1].path = <<>>
               /\ fsVars = drv.snap
      ]_vars

\* a second call with the arguments of a successful first call has returned
C1_Witness ==
    /\ drv.pc = "create"
    /\ cw[1].pc = "ret"
    /\ cw[1].err = "AlreadyExists"
    /\ drv.last.op = "create"
    /\ drv.last.err = ""
    /\ drv.last.id = cw[1].id
    /\ entries[cw[1].id] = DirEntry(0, 1)

\* worker w's call of CreateWorktreeForIssue has succeeded
Created(w) == wk[w].path # <<>> \/ (cw[w].pc = "ret" /\ cw[w].err = "")

AfterFeature == {"launch", "lock", "store", "done"}

\* C2: among the workers of one run that are given the same issue ID at most
\* one call of CreateWorktreeForIssue succeeds, every other call returns the
\* 'already exists' or the 'failed to create worktree' error with an empty
\* path, and the winner's worktree stays the winner's: only its owner writes
\* into it.
C2_AtMostOneOwner ==
    /\ \A w \in Workers :
         /\ Created(w) =>
              /\ entries[IssueOf(w)].kind = "dir"
              /\ entries[IssueOf(w)].owner = w
              /\ \A v \in Workers \ {w} : IssueOf(v) = IssueOf(w) => ~Created(v)
         /\ (cw[w].pc = "ret" /\ cw[w].err # "") =>
              /\ cw[w].err \in {"AlreadyExists", "WorktreeAddFailed"}
              /\ cw[w].path = <<>>
    /\ \A n \in Names :
         entries[n].feature =>
            /\ entries[n].owner \in Workers
            /\ IssueOf(entries[n].owner) = n
            /\ wk[entries[n].owner].pc \in AfterFeature

\* a worker passed the existence check, lost the race and failed in git
C2_Witness ==
    \E w \in Workers, v \in Workers :
        /\ w # v
        /\ IssueOf(w) = IssueOf(v)
        /\ Created(w)
        /\ cw[v].pc = "ret"
        /\ cw[v].err = "WorktreeAddFailed"

\* the workers whose goroutine has finished, by the outcome of processIssue
Failed == {w \in Workers : wk[w].pc = "done" /\ wk[w].err # ""}

Succeeded == {w \in Workers : wk[w].pc = "done" /\ wk[w].err = ""}

\* Run has returned after the pool ran
PoolFinished == main.pc = "done" /\ main.i >= 1

\* C3: in the pool of Application.Run a failing processIssue cancels no
\* sibling: when the pool has finished every one of the N issues has been
\* processed, and under every interleaving errorCount is the number of issues
\* whose processIssue returned an error and successCount the number of the
\* others, so that successCount + errorCount = N (no increment is lost).
C3_CountersExact ==
    /\ counters.error = Cardinality(Failed)
    /\ counters.success = Cardinality(Succeeded)
    /\ PoolFinished =>
         /\ Failed \cup Succeeded = Workers
         /\ counters.success + counters.error = NumIssues

\* the pool has finished with failed and succeeded issues side by side
C3_Witness ==
    /\ PoolFinished
    /\ NumIssues >= 2
    /\ counters.error >= 1
    /\ counters.success >= 1

\* the workers whose goroutine has started and not finished
Running == {w \in Workers : wk[w].pc \notin {"queued", "done"}}

\* C4: with a configured concurrency c >= 1 at most c workers have started
\* processIssue and not finished, and an issue beyond the limit is started
\* only when fewer than c workers are running, i.e. after one has finished.
C4_BoundedConcurrency ==
    []((cfg.concurrency >= 1) => Cardinality(Running) <= cfg.concurrency)
    /\ [][\A w \in Workers :
            (cfg.concurrency >= 1 /\ wk[w].pc = "queued" /\ wk'[w].pc # "queued")
               => /\ Cardinality(Running) < cfg.concurrency
                  /\ (w > cfg.concurrency => \E v \in Workers : wk[v].pc = "done")
        ]_vars

\* the limit is reached while an issue is still waiting to be started
C4_Witness ==
    /\ cfg.concurrency >= 1
    /\ main.pc = "dispatch"
    /\ main.i <= NumIssues
    /\ Cardinality(Running) = cfg.concurrency

\* Run returned the error of the automatic cleanup or of PrepareRepository
AbortedBeforePool == main.pc = "done" /\ main.err \in {"CleanupFailed", "PrepareFailed"}

\* C5: in a run that is not cleanup-only CleanWorktrees and
\* PrepareRepository have both returned before the first worker starts, so
\* none of their steps is interleaved with a worker; and when either of them
\* returns an error Run returns an error at once and no worker is started:
\* no tracker call, no worktree created, no launch.
C5_PoolAfterPreparation ==
    [](/\ \A w \in Workers :
            (wk[w].pc # "queued" \/ cw[w].pc # "idle") =>
                /\ cl.pc = "idle"
                /\ pr.pc = "idle"
                /\ main.pc \in {"dispatch", "wait", "done"}
       /\ AbortedBeforePool =>
            /\ \A w \in Workers : wk[w] = IdleWorker /\ cw[w] = IdleCreate
            /\ tracker = {}
            /\ launched = {}
            /\ \A n \in Names : entries[n].owner = 0)
    /\ [][/\ (main.pc = "cleanup" /\ cl.pc = "ret" /\ cl.err # "" /\ main' # main)
              => main'.pc = "done" /\ main'.err = "CleanupFailed"
          /\ (main.pc = "prepare" /\ pr.pc = "ret" /\ pr.err # "" /\ main' # main)
              => main'.pc = "done" /\ main'.err = "PrepareFailed"
         ]_vars

\* Run returned the error of PrepareRepository with issues left unprocessed
C5_Witness ==
    /\ main.pc = "done"
    /\ main.err = "PrepareFailed"
    /\ NumIssues >= 1
    /\ \A w \in Workers : wk[w].pc = "queued"

\* C6: in processIssue the marking of the issue as In Progress is
\* best-effort: when MarkIssueInProgress fails after a successful fetch the
\* worker goes on to create the worktree and the issue is not counted as an
\* error because of it.
C6_MarkBestEffort ==
    [][\A w \in Workers :
          (wk[w].pc = "mark" /\ wk'[w] # wk[w])
             => wk'[w].pc = "create" /\ wk'[w].err = ""
      ]_vars

\* C7: once cleanup and preparation have succeeded Run returns nil if and
\* only if the processIssue of every issue succeeded, and otherwise returns
\* the error of the failed issues after all issues have finished; no
\* goroutine returns an error to the group, so the group's Wait never fails.
C7_RunOutcome ==
    /\ \A w \in Workers : wk[w].ret = ""
    /\ PoolFinished =>
         /\ \A w \in Workers : wk[w].pc = "done"
         /\ main.err \in {"", "IssuesFailed"}
         /\ main.err = "" <=> \A w \in Workers : wk[w].err = ""

\* Run returned an error because one of two issues failed
C7_Witness ==
    /\ PoolFinished
    /\ main.err = "IssuesFailed"
    /\ \E w \in Workers : wk[w].err # ""
    /\ \E w \in Workers : wk[w].err = ""

\* the directories older than days among the entries es
Reclaimable(es, days) == {n \in Names : es[n].kind = "dir" /\ es[n].age > days}

\* the entries of the snapshot without its reclaimable directories
ExpectedAfterClean ==
    [n \in Names |-> IF n \in Reclaimable(SnapEntries, cl.days)
                     THEN NoEntry ELSE SnapEntries[n]]

\* the direct call of CleanWorktrees has gone through every entry
PassCompleted ==
    /\ drv.pc = "clean"
    /\ SnapRoot = "dir"
    /\ \/ cl.pc \in {"prune", "prunerun"}
       \/ cl.pc = "ret" /\ cl.err \in {"", "GitDirNotFound", "PruneFailed"}

\* C8: CleanWorktrees with dryRun=false, thresholdDays >= 0 and an existing
\* worktreeRoot removes exactly the directories directly under worktreeRoot
\* whose modification time is strictly before now - thresholdDays: a directory
\* modified at the cutoff or later survives and a plain file survives at any
\* age; nothing else is ever changed under worktreeRoot.
C8_RemovesExactlyOldDirs ==
    (drv.pc = "clean" /\ ~cl.dry) =>
        /\ root = SnapRoot
        /\ \A n \in Names :
              entries[n] # SnapEntries[n] =>
                 /\ cl.days >= 0
                 /\ n \in Reclaimable(SnapEntries, cl.days)
                 /\ entries[n] = NoEntry
        /\ PassCompleted => entries = ExpectedAfterClean

\* directories aged 10 and 3 days and a file aged 10 days, threshold 7: the
\* call has returned and only the 10-day directory is gone
C8_Witness ==
    /\ drv.pc = "clean"
    /\ ~cl.dry
    /\ cl.days = 7
    /\ cl.pc = "ret"
    /\ cl.err = ""
    /\ SnapEntries[IdA1] = DirEntry(10, 0)
    /\ SnapEntries[IdASp1] = DirEntry(3, 0)
    /\ SnapEntries[FileF] = FileEntry(10)
    /\ entries[IdA1] = NoEntry
    /\ entries[IdASp1] = DirEntry(3, 0)
    /\ entries[FileF] = FileEntry(10)

\* C9: CleanWorktrees with dryRun=true changes neither the filesystem nor
\* the repository, whatever the input: no directory is removed at any age,
\* git worktree prune is not executed, and the directories that would have
\* been removed are only counted and logged.
C9_DryRunChangesNothing ==
    (drv.pc = "clean" /\ cl.dry) =>
        /\ fsVars = drv.snap
        /\ cl.pc # "prunerun"
        /\ (cl.pc = "ret" /\ cl.err = "" /\ SnapRoot = "dir") =>
              cl.removedCount = Cardinality(Reclaimable(SnapEntries, cl.days))

\* a dry run has returned: it counted an old directory and left it, and left
\* the stale registration a prune would have dropped
C9_Witness ==
    /\ drv.pc = "clean"
    /\ cl.dry
    /\ cl.pc = "ret"
    /\ cl.err = ""
    /\ cl.removedCount >= 1
    /\ \E n \in Names : entries[n].kind = "dir" /\ entries[n].age > cl.days
    /\ \E n \in repo.registered : entries[n].kind = "none"

\* C10: with dryRun=false and an existing worktreeRoot the prune step runs
\* after the directory pass whether or not a directory was removed; when
\* repoPath has no .git entry the call fails with 'git directory not found'
\* although the pass succeeded, and what the pass removed stays removed.
C10_PruneAfterPass ==
    []((drv.pc = "clean" /\ ~cl.dry /\ cl.pc = "ret" /\ SnapRoot = "dir"
          /\ cl.days >= 0 /\ cl.err # "RemovalFailed") =>
         /\ ~repo.gitDir =>
               /\ cl.err = "GitDirNotFound"
               /\ entries = ExpectedAfterClean
         /\ (repo.gitDir /\ repo.valid) =>
               /\ cl.err = ""
               /\ \A n \in repo.registered : entries[n].kind = "dir"
         /\ (repo.gitDir /\ ~repo.valid) => cl.err = "PruneFailed")
    /\ [][/\ (cl.pc = "loop" /\ cl.i > Len(cl.list) /\ cl' # cl)
              => cl'.pc = "prune" /\ cl'.err = ""
          /\ (cl.pc = "prune" /\ ~cl.dry /\ repo.gitDir /\ cl' # cl)
              => cl'.pc = "prunerun"
         ]_vars

\* the call failed for want of a .git entry after removing a directory
C10_Witness ==
    /\ drv.pc = "clean"
    /\ ~cl.dry
    /\ cl.pc = "ret"
    /\ cl.err = "GitDirNotFound"
    /\ cl.removedCount >= 1
    /\ \E n \in Names : SnapEntries[n].kind = "dir" /\ entries[n] = NoEntry

\* C11: CleanWorktrees with thresholdDays < 0 returns the 'cleanup days must
\* be non-negative' error before any filesystem access, for every
\* worktreeRoot, repoPath and dryRun: worktreeRoot is neither looked up nor
\* listed, and nothing is removed or pruned.
C11_NegativeThresholdRejected ==
    (drv.pc = "clean" /\ cl.days < 0) =>
        /\ cl.pc \in {"threshold", "ret"}
        /\ cl.pc = "ret" => cl.err = "InvalidThreshold"
        /\ cl.list = <<>>
        /\ cl.removedCount = 0
        /\ fsVars = drv.snap

\* a call with a negative threshold has returned, with an old directory under
\* worktreeRoot and dryRun=false
C11_Witness ==
    /\ drv.pc = "clean"
    /\ cl.days < 0
    /\ ~cl.dry
    /\ cl.pc = "ret"
    /\ cl.err = "InvalidThreshold"
    /\ root = "dir"
    /\ entries[IdA1] = DirEntry(10, 0)

\* C12: CleanWorktrees with thresholdDays >= 0 on a worktreeRoot that does
\* not exist returns success without reading, removing or pruning anything,
\* whether repoPath is a repository or not and whatever dryRun is.
C12_MissingRootIsSuccess ==
    (drv.pc = "clean" /\ cl.days >= 0 /\ SnapRoot = "none") =>
        /\ cl.pc \in {"threshold", "statroot", "ret"}
        /\ cl.pc = "ret" => cl.err = ""
        /\ cl.removedCount = 0
        /\ fsVars = drv.snap

\* the call has returned success although repoPath has no .git entry
C12_Witness ==
    /\ drv.pc = "clean"
    /\ cl.days >= 0
    /\ ~cl.dry
    /\ SnapRoot = "none"
    /\ cl.pc = "ret"
    /\ cl.err = ""
    /\ ~repo.gitDir

\* the direct call of CreateWorktreeForIssue has returned
CreateReturned == drv.pc = "create" /\ cw[1].pc = "ret"

\* C13: CreateWorktreeForIssue checks the repository, then the base branch,
\* then the target path, and the first failing check decides the error: an
\* invalid repoPath gives 'not a git repository' whatever the branch and the
\* path; a valid repository without the base branch gives 'base branch does
\* not exist' even when the target path exists; in both cases the path
\* returned is empty and nothing is created.
C13_ValidationOrder ==
    CreateReturned =>
        /\ ~SnapRepo.valid =>
              /\ cw[1].err = "NotARepository"
              /\ cw[1].path = <<>>
              /\ fsVars = drv.snap
        /\ (SnapRepo.valid /\ cw[1].base \notin SnapRepo.branches) =>
              /\ cw[1].err = "BranchNotFound"
              /\ cw[1].path = <<>>
              /\ fsVars = drv.snap
        /\ cw[1].err = "AlreadyExists" =>
              /\ SnapRepo.valid
              /\ cw[1].base \in SnapRepo.branches

\* the base branch is missing and the target path exists: the branch decides
C13_Witness ==
    /\ CreateReturned
    /\ cw[1].err = "BranchNotFound"
    /\ SnapRepo.valid
    /\ SnapRoot = "dir"
    /\ SnapEntries[cw[1].id].kind = "dir"

\* the result of SanitizeBranchName described by positions: the argument with
\* disallowed characters read as hyphens, cut to the span from its first to
\* its last character that is not a hyphen
ExpectedSanitized(x) ==
    LET r == [i \in 1..Len(x) |-> IF x[i] \in AllowedChars THEN x[i] ELSE "-"]
        keep == {i \in 1..Len(x) : r[i] # "-"}
    IN  IF keep = {} THEN <<"i", "s", "s", "u", "e">>
        ELSE LET lo == CHOOSE i \in keep : \A j \in keep : i <= j
                 hi == CHOOSE i \in keep : \A j \in keep : j <= i
             IN  [k \in 1..(hi - lo + 1) |-> r[lo + k - 1]]

\* C14: SanitizeBranchName is total and for every string, the empty one and
\* those made only of disallowed characters or hyphens included, returns a
\* non-empty string of ASCII letters, digits, '-' and '_': the argument with
\* every other character replaced by '-' and the hyphens at both ends
\* trimmed, or "issue" when nothing is left.
C14_SanitizedIsValidName ==
    sn.pc \in {"once", "twice"} =>
        /\ sn.out # <<>>
        /\ \A i \in 1..Len(sn.out) : sn.out[i] \in AllowedChars
        /\ sn.out = ExpectedSanitized(sn.in)

\* an argument made of hyphens and disallowed characters gave the fallback
C14_Witness ==
    /\ sn.pc = "once"
    /\ Len(sn.in) = MaxLen
    /\ "-" \in {sn.in[i] : i \in 1..Len(sn.in)}
    /\ \E i \in 1..Len(sn.in) : sn.in[i] \notin AllowedChars
    /\ sn.out = FallbackName

\* C15: SanitizeBranchName is idempotent: applied to its own result it
\* returns that result, also when the result is the fallback "issue".
C15_SanitizeIdempotent ==
    sn.pc = "twice" => sn.again = sn.out

\* the second application left a result alone that the first had changed
C15_Witness ==
    /\ sn.pc = "twice"
    /\ sn.out # sn.in
    /\ sn.out # FallbackName
    /\ sn.again = sn.out

\* the direct call of PrepareRepository is under way, has returned
Preparing == drv.pc = "prepare"

PrepareReturned == drv.pc = "prepare" /\ pr.pc = "ret"

\* C16: PrepareRepository validates the repository, verifies the base
\* branch, checks it out and pulls only when a remote is configured, in that
\* order, and stops at the first failure: an invalid repository gives 'not a
\* git repository' without a checkout; a missing branch gives 'branch does
\* not exist' and leaves the checked-out branch alone; without a remote the
\* pull is skipped and the call succeeds with the base branch checked out.
C16_PrepareOrder ==
    /\ (Preparing /\ pr.pc \in {"validate", "branch", "checkout"}) => fsVars = drv.snap
    /\ (Preparing /\ pr.pc = "pull") =>
          /\ SnapRepo.valid
          /\ pr.base \in SnapRepo.branches
          /\ repo = [SnapRepo EXCEPT !.head = pr.base]
    /\ PrepareReturned =>
          /\ ~SnapRepo.valid =>
                pr.err = "NotARepository" /\ fsVars = drv.snap
          /\ (SnapRepo.valid /\ pr.base \notin SnapRepo.branches) =>
                pr.err = "BranchNotFound" /\ fsVars = drv.snap
          /\ pr.err = "CheckoutFailed" => fsVars = drv.snap
          /\ pr.err = "SyncFailed" =>
                SnapRepo.remote /\ repo = [SnapRepo EXCEPT !.head = pr.base]
          /\ (SnapRepo.valid /\ pr.base \in SnapRepo.branches /\ ~SnapRepo.remote) =>
                /\ pr.err \in {"", "CheckoutFailed"}
                /\ pr.err = "" => repo = [SnapRepo EXCEPT !.head = pr.base]
          /\ (pr.err = "" /\ SnapRepo.remote) =>
                repo = [SnapRepo EXCEPT !.head = pr.base, !.synced = TRUE]

\* without a remote the call has succeeded and changed the checked-out branch
C16_Witness ==
    /\ PrepareReturned
    /\ pr.err = ""
    /\ ~SnapRepo.remote
    /\ SnapRepo.head # pr.base
    /\ repo.head = pr.base
    /\ ~repo.synced

\* C17: in a run that is not cleanup-only PrepareRepository is the first of
\* the one-time steps and has returned before the automatic CleanWorktrees is
\* called, which has returned before the pool starts.
C17_PrepareBeforeCleanup ==
    [][/\ (pr.pc = "idle" /\ pr'.pc # "idle") =>
             main.pc = "start" /\ cl.pc = "idle"
       /\ (~cfg.cleanup /\ cl.pc = "idle" /\ cl'.pc # "idle") =>
             main.pc = "prepare" /\ pr.pc = "ret" /\ pr.err = ""
       /\ (\E w \in Workers : wk[w].pc = "queued" /\ wk'[w].pc # "queued") =>
             cl.pc = "idle" /\ pr.pc = "idle"
      ]_vars

\* this step is worker w's successful git worktree add
CreatesWorktree(w) == cw[w].pc = "add" /\ cw'[w].pc = "ret" /\ cw'[w].err = ""

\* C18: no step of processIssue removes a worktree directory, not even when
\* the feature file or the launch fails after the worktree was created:
\* directories are removed only by steps of CleanWorktrees, in the pool phase
\* the set of directories only grows, and a directory created in the run is
\* created by one worker and stays that worker's.
C18_WorkersNeverRemove ==
    [](\A w \in Workers :
          wk[w].path # <<>> =>
             /\ entries[wk[w].path].kind = "dir"
             /\ entries[wk[w].path].owner = w)
    /\ [][\A n \in Names :
            /\ (entries[n].kind = "dir" /\ entries'[n].kind # "dir") =>
                  /\ cl.pc = "loop"
                  /\ cl' # cl
                  /\ main.pc \in {"cleanonly", "cleanup"}
            /\ (entries[n].kind = "dir" /\ entries'[n].kind = "dir") =>
                  entries'[n].owner = entries[n].owner
            /\ (entries[n].kind # "dir" /\ entries'[n].kind = "dir") =>
                  \E w \in Workers :
                     /\ CreatesWorktree(w)
                     /\ IssueOf(w) = n
                     /\ entries'[n].owner = w
                     /\ \A v \in Workers \ {w} : cw'[v] = cw[v]
         ]_vars

\* an issue failed at the launch and its worktree is still there
C18_Witness ==
    \E w \in Workers :
        /\ wk[w].pc = "done"
        /\ wk[w].err = "LaunchFailed"
        /\ entries[wk[w].path].kind = "dir"
        /\ entries[wk[w].path].feature

\* processIssue of worker w has returned
Returned(w) == wk[w].pc \in {"lock", "store", "done"}

\* worker w's fetch, status update and worktree creation have succeeded
CreatedWorktree(w) == wk[w].path # <<>>

\* and its feature file was written too: w has reached the handoff
ReachedHandoff(w) == CreatedWorktree(w) /\ entries[wk[w].path].feature

\* the launcher is never called in dry-run mode, and otherwise once for each
\* issue that reached the handoff, whose failure fails the issue
LauncherCalls ==
    \A w \in Workers :
        /\ cfg.appDryRun => wk[w].launches = 0 /\ w \notin launched
        /\ wk[w].launches = IF ~cfg.appDryRun /\ Returned(w) /\ ReachedHandoff(w)
                            THEN 1 ELSE 0
        /\ (Returned(w) /\ wk[w].launches = 1) =>
              /\ wk[w].err \in {"", "LaunchFailed"}
              /\ wk[w].err = "" <=> w \in launched
        /\ (wk[w].pc = "done" /\ wk[w].err = "LaunchFailed") => counters.error >= 1

\* C19, counting on three steps only: in dry-run mode the launcher is never
\* called and an issue
\* whose fetch, status update and worktree creation succeeded is counted as a
\* success; otherwise the launcher is called once for each issue that
\* reached it and its error fails the issue.
C19_DryRunHandoff_AsStated ==
    /\ LauncherCalls
    /\ \A w \in Workers :
          (cfg.appDryRun /\ Returned(w) /\ CreatedWorktree(w)) => wk[w].err = ""

\* C19: in dry-run mode the launcher is never called and an issue whose
\* fetch, status update, worktree creation and feature file succeeded is
\* counted as a success; otherwise the launcher is called once for each issue
\* that reached it and its error fails the issue.
C19_DryRunHandoff ==
    /\ LauncherCalls
    /\ \A w \in Workers :
          (cfg.appDryRun /\ Returned(w) /\ ReachedHandoff(w)) =>
              /\ wk[w].err = ""
              /\ wk[w].pc = "done" => counters.success >= 1

\* a dry run has finished an issue as a success without calling the launcher
C19_Witness ==
    \E w \in Workers :
        /\ cfg.appDryRun
        /\ wk[w].pc = "done"
        /\ ReachedHandoff(w)
        /\ wk[w].err = ""
        /\ wk[w].launches = 0
        /\ counters.success >= 1

\* the names CleanWorktrees listed before, and from, the entry it is at
Visited == {cl.list[k].name : k \in 1..(cl.i - 1)}

Unvisited == {cl.list[k].name : k \in cl.i..Len(cl.list)}

\* the loop of the direct call is at a reclaimable directory, dryRun=false
AtReclaimable ==
    /\ drv.pc = "clean"
    /\ cl.pc = "loop"
    /\ cl.i <= Len(cl.list)
    /\ ~cl.dry
    /\ cl.list[cl.i].name \in Reclaimable(SnapEntries, cl.days)

\* C20: when the removal of a reclaimable directory fails in CleanWorktrees
\* with dryRun=false the call returns the removal error at once: the
\* directories removed before stay removed, the directory that failed and
\* the entries after it are left as they were, and nothing is pruned.
C20_RemovalFailureStops ==
    []((drv.pc = "clean" /\ cl.pc = "ret" /\ cl.err = "RemovalFailed") =>
          /\ ~cl.dry
          /\ cl.list[cl.i].name \in Reclaimable(SnapEntries, cl.days)
          /\ \A n \in Visited : entries[n] = ExpectedAfterClean[n]
          /\ \A n \in Unvisited : entries[n] = SnapEntries[n]
          /\ cl.removedCount = Cardinality(Visited \cap Reclaimable(SnapEntries, cl.days))
          /\ repo = SnapRepo)
    /\ [][(AtReclaimable /\ cl' # cl /\ entries'[cl.list[cl.i].name] # NoEntry) =>
             /\ cl'.pc = "ret"
             /\ cl'.err = "RemovalFailed"
             /\ fsVars' = fsVars
         ]_vars

\* the second removal failed: the first directory is gone, the second is
\* there, and a registration that a prune would drop is still there
C20_Witness ==
    /\ drv.pc = "clean"
    /\ cl.pc = "ret"
    /\ cl.err = "RemovalFailed"
    /\ cl.removedCount = 1
    /\ \E n \in Visited : SnapEntries[n].kind = "dir" /\ entries[n] = NoEntry
    /\ entries[cl.list[cl.i].name].kind = "dir"
    /\ \E n \in repo.registered : entries[n].kind = "none"

\* the moves of a worker from one step of its goroutine to the next
StepOrder ==
    {<<"queued", "fetch">>, <<"fetch", "mark">>, <<"mark", "create">>,
     <<"create", "creating">>, <<"creating", "feature">>, <<"feature", "launch">>,
     <<"launch", "lock">>, <<"lock", "store">>, <<"store", "done">>}

\* the moves by which processIssue returns an error
StepFailure ==
    {<<"fetch", "lock">>, <<"mark", "lock">>, <<"creating", "lock">>,
     <<"feature", "lock">>, <<"launch", "lock">>}

\* worker w moves from step a to step b
Moves(w, a, b) == wk[w].pc = a /\ wk'[w].pc = b

\* C21: processIssue fetches the issue, marks it In Progress, creates the
\* worktree, writes the feature file and hands off, in that order, each step
\* starting after the one before has returned; when the fetch fails there is
\* no status mutation, no worktree and no launch for the issue; when the
\* creation of the worktree fails no feature file is written and nothing is
\* launched.
C21_StepOrder ==
    [](\A w \in Workers :
          /\ cw[w].pc # "idle" => wk[w].pc = "creating"
          /\ wk[w].err \in {"FetchFailed", "MarkFailed", "CreateFailed"} =>
                /\ wk[w].path = <<>>
                /\ wk[w].launches = 0
                /\ w \notin launched
                /\ ~(entries[IssueOf(w)].feature /\ entries[IssueOf(w)].owner = w))
    /\ [][/\ \A w \in Workers :
               /\ wk'[w].pc # wk[w].pc =>
                     <<wk[w].pc, wk'[w].pc>> \in StepOrder \cup StepFailure
               /\ wk'[w].err # wk[w].err =>
                     /\ <<wk[w].pc, wk'[w].pc>> \in StepFailure
                     /\ wk[w].err = ""
               /\ (<<wk[w].pc, wk'[w].pc>> \in StepFailure \ StepOrder) =>
                     wk'[w].err # ""
               /\ Moves(w, "fetch", "lock") =>
                     /\ wk'[w].err = "FetchFailed"
                     /\ <<fsVars, tracker, launched>>' = <<fsVars, tracker, launched>>
               /\ Moves(w, "creating", "feature") =>
                     cw[w].err = "" /\ wk'[w].path = cw[w].path
               /\ Moves(w, "creating", "lock") =>
                     /\ cw[w].err # ""
                     /\ wk'[w].err = "CreateFailed"
                     /\ <<fsVars, tracker, launched>>' = <<fsVars, tracker, launched>>
               /\ wk'[w].launches # wk[w].launches => Moves(w, "launch", "lock")
          /\ tracker' # tracker => \E w \in Workers : Moves(w, "mark", "create")
          /\ launched' # launched => \E w \in Workers : Moves(w, "launch", "lock")
          /\ (\E n \in Names : entries'[n].feature /\ ~entries[n].feature) =>
                \E w \in Workers :
                   Moves(w, "feature", "launch") /\ entries'[wk[w].path].owner = w
         ]_vars

\* an issue failed at the creation, by a collision, and has finished: no
\* feature file of its own, no launch
C21_Witness ==
    \E w \in Workers :
        /\ wk[w].pc = "done"
        /\ wk[w].err = "CreateFailed"
        /\ entries[IssueOf(w)].kind = "dir"
        /\ entries[IssueOf(w)].owner # w
        /\ wk[w].launches = 0

\* C22: for every list of issues and every concurrency value the flag
\* accepts, when every step terminates the pool, once Run has reached it,
\* starts and finishes every issue and Run returns with
\* successCount + errorCount equal to the number of issues.
C22_PoolLiveness ==
    (main.pc = "dispatch") ~>
        (/\ main.pc = "done"
         /\ \A w \in Workers : wk[w].pc = "done"
         /\ counters.success + counters.error = NumIssues)

\* C23: the branch checked out in the shared repository is changed only by
\* PrepareRepository, before the pool starts: from the start of the first
\* worker until Run returns it is the base branch, and no step of a worker,
\* git worktree add included, changes it, whatever the interleaving.
C23_BaseBranchStable ==
    []((main.pc \in {"dispatch", "wait"} \/ PoolFinished) =>
          /\ repo.head = cfg.baseBranch
          /\ repo.valid)
    /\ [][repo'.head # repo.head =>
             /\ pr.pc = "checkout"
             /\ main.pc = "prepare"
             /\ \A w \in Workers : wk[w] = IdleWorker /\ cw[w] = IdleCreate
         ]_vars

\* PrepareRepository changed the branch, and a worker has since added its
\* branch and worktree
C23_Witness ==
    /\ main.pc = "wait"
    /\ repo.head = MainBranch
    /\ \E w \in Workers :
          /\ wk[w].path # <<>>
          /\ SanitizeBranchName(IssueOf(w)) \in repo.branches
          /\ wk[w].path \in repo.registered

\* the issue that worker w's ID denotes: its canonical TEAM-NUMBER key
CanonicalIssue(w) == parseIssueIdentifier(IssueOf(w))

\* the worktree directories and the branches that belong to issue k
WorktreesOf(k) ==
    {n \in Names : entries[n].kind = "dir" /\ parseIssueIdentifier(n) = k}

BranchesOf(k) ==
    {SanitizeBranchName(n) : n \in {m \in Names : parseIssueIdentifier(m) = k}}
        \cap repo.branches

\* C24: issue IDs that differ only in letter case denote one issue: a run
\* given both creates at most one worktree directory and one branch for it,
\* and the second creation fails with the collision error.
C24_OneWorktreePerIssue ==
    /\ \A w \in Workers, v \in Workers :
          (w # v /\ CanonicalIssue(w) = CanonicalIssue(v)) =>
              ~(Created(w) /\ Created(v))
    /\ \A w \in Workers :
          /\ Cardinality(WorktreesOf(CanonicalIssue(w))) <= 1
          /\ Cardinality(BranchesOf(CanonicalIssue(w))) <= 1


\* the steps of runWorkflow in the order of its statements
WorkflowOrder ==
    {<<"idle", "creds">>, <<"creds", "fetch">>, <<"fetch", "mark">>,
     <<"mark", "clone">>, <<"clone", "chdir">>, <<"chdir", "branch">>,
     <<"branch", "agent">>, <<"agent", "stage">>, <<"stage", "commit">>,
     <<"commit", "push">>, <<"push", "publish">>, <<"publish", "done">>}

\* the steps that must have succeeded before step s is done
StepsBefore(s) ==
    CASE s = "fetch" -> {}
      [] s = "mark" -> {"fetch"}
      [] s = "clone" -> {"fetch"}
      [] s = "checkout" -> {"fetch", "clone"}
      [] s = "agent" -> {"fetch", "clone", "checkout"}
      [] s = "add" -> {"fetch", "clone", "checkout", "agent"}
      [] s = "commit" -> {"fetch", "clone", "checkout", "agent", "add"}
      [] s = "push" -> {"fetch", "clone", "checkout", "agent", "add", "commit"}
      [] OTHER -> {"fetch", "clone", "checkout", "agent", "add", "commit", "push"}

CredentialsSet == env.linear /\ env.github /\ env.agent

\* C25: runWorkflow checks the credentials before any tracker call and takes
\* its steps in the order fetch, mark In Progress, clone, create branch, run
\* agent, stage, commit, push, then pull request or progress comment; it
\* pushes only after the agent run and the commit succeeded and publishes
\* only after the push succeeded; a failed In Progress update or a failed
\* progress comment is only logged and does not end the workflow in error.
C25_WorkflowOrder ==
    /\ [](\A w \in Requests :
            /\ ~CredentialsSet =>
                  /\ wf[w].did = {} /\ wf[w].warned = {}
                  /\ wf[w].pc \in {"idle", "creds", "done"}
                  /\ wf[w].pc = "done" => wf[w].err = "MissingCredential"
            /\ \A s \in wf[w].did \cup wf[w].warned : StepsBefore(s) \subseteq wf[w].did
            /\ wf[w].pc # "done" => wf[w].err = ""
            /\ (wf[w].pc = "done" /\ wf[w].err = "") =>
                  /\ StepsBefore("pr") \subseteq wf[w].did
                  /\ "mark" \in wf[w].did \cup wf[w].warned
                  /\ IF env.variant = "pr" THEN "pr" \in wf[w].did
                     ELSE "comment" \in wf[w].did \cup wf[w].warned)
    /\ [][\A w \in Requests :
            /\ wf'[w].pc # wf[w].pc =>
                  \/ <<wf[w].pc, wf'[w].pc>> \in WorkflowOrder
                  \/ wf'[w].pc = "done" /\ wf'[w].err # ""
            /\ (wf[w].pc = "mark" /\ wf'[w] # wf[w]) =>
                  wf'[w].pc = "clone" /\ wf'[w].err = ""
            /\ (wf[w].pc = "publish" /\ wf'[w] # wf[w] /\ env.variant = "comment") =>
                  wf'[w].err = ""
       ]_vars

\* a workflow that ran to its pull request although its In Progress update
\* failed, and one that ended at a failed push without a pull request
C25_Witness ==
    /\ wf[1].pc = "done" /\ wf[1].err = ""
    /\ "mark" \in wf[1].warned /\ "pr" \in wf[1].did
    /\ wf[2].pc = "done" /\ wf[2].err = "PushFailed"
    /\ "commit" \in wf[2].did /\ "pr" \notin wf[2].did

\* the answer the /trigger endpoint owes request r
ExpectedStatus(r) ==
    CASE req[r].method # "POST" -> 405
      [] req[r].method = "POST" /\ ~req[r].key -> 401
      [] req[r].method = "POST" /\ req[r].key /\ req[r].body # "ok" -> 400
      [] OTHER -> 202

Accepted(r) == req[r].method = "POST" /\ req[r].key /\ req[r].body = "ok"

\* C26: the /trigger handler starts a workflow only for a POST whose key is
\* the server's and whose body decodes with both fields non-empty; it answers
\* 405, 401, 400, 400 by the first check that fails; a rejected request
\* starts no workflow; an accepted one starts exactly one and is answered
\* 202 whatever the workflow does.
C26_TriggerHandler ==
    \A r \in Requests :
        /\ wf[r].starts <= 1
        /\ wf[r].starts = 1 => Accepted(r)
        /\ wf[r].pc # "idle" => wf[r].starts = 1
        /\ req[r].pc = "received" => wf[r].starts = 0 /\ req[r].status = 0
        /\ req[r].pc = "respond" => wf[r].starts = 1 /\ req[r].status = 0
        /\ req[r].pc = "closed" =>
              /\ req[r].status = ExpectedStatus(r)
              /\ wf[r].starts = IF Accepted(r) THEN 1 ELSE 0

\* one request answered 202 while its workflow is still running, another
\* answered 202 although its workflow failed, and neither started twice
C26_Witness ==
    /\ req[1].pc = "closed" /\ req[1].status = 202
    /\ wf[1].pc \notin {"idle", "done"}
    /\ req[2].pc = "closed" /\ req[2].status = 202
    /\ wf[2].pc = "done" /\ wf[2].err # ""

\* C30: workflows the server runs concurrently are isolated: each one clones
\* from the directory the server started in, and its checkout, agent, add,
\* commit, push and pull request commands run in its own clone, never in a
\* directory another workflow selected.
C30_WorkflowsIsolated ==
    \A w \in Requests :
        /\ wf[w].foreign = {}
        /\ wf[w].cloneDir = StartDir

\* the returned create call re-creates a worktree: the call before it was a
\* CleanWorktrees call that succeeded and removed the directory an earlier
\* create call had made for the same issue, and the repository, the root and
\* the base branch are as they were
Recreation ==
    /\ CreateReturned
    /\ drv.last.op = "clean"
    /\ drv.last.err = ""
    /\ cw[1].id \in drv.last.removed
    /\ SnapRoot = "dir"
    /\ SnapRepo.valid
    /\ cw[1].base \in SnapRepo.branches

\* C27: after CleanWorktrees (dryRun=false) removed the directory of issue X
\* and pruned, a later CreateWorktreeForIssue for the same X, root, repository
\* and base branch succeeds and yields a fresh worktree: the branch the first
\* creation made for X does not prevent it.
C27_RecreationSucceeds ==
    Recreation =>
        /\ cw[1].err = ""
        /\ cw[1].path = cw[1].id
        /\ entries[cw[1].id] = DirEntry(0, 1)
        /\ cw[1].id \in repo.registered

\* the errors of the steps of processIssue that follow the status update
LateErrors == {"CreateFailed", "FeatureFailed", "LaunchFailed"}

\* the workers whose issue failed after its status update succeeded
FailedAfterMark == {w \in Workers : wk[w].err \in LateErrors}

\* C28: the status update is not compensated: an issue whose worktree
\* creation, feature file or launch fails after its status update succeeded
\* stays marked In Progress in the tracker, nothing ever takes a mark back,
\* and at the end of the run the issue is counted in errorCount.
C28_MarkNotCompensated ==
    /\ [](\A w \in FailedAfterMark : CanonicalIssue(w) \in tracker)
    /\ []((main.pc = "done" /\ \A w \in Workers : wk[w].pc = "done") =>
            /\ counters.error = Cardinality(Failed)
            /\ FailedAfterMark \subseteq Failed)
    /\ [][tracker \subseteq tracker']_vars

\* a finished run in which two issues failed at different steps after their
\* status updates, both counted as errors and still marked
C28_Witness ==
    /\ main.pc = "done"
    /\ \A w \in Workers : wk[w].pc = "done"
    /\ NumIssues >= 2
    /\ \A w \in Workers : w <= 2 => wk[w].err \in LateErrors
    /\ wk[1].err # wk[2].err
    /\ counters.error >= 2
    /\ CanonicalIssue(1) \in tracker

\* a direct dry-run call of CleanWorktrees on an existing worktreeRoot with a
\* valid threshold has returned
DryRunReturned ==
    /\ drv.pc = "clean"
    /\ cl.pc = "ret"
    /\ cl.dry
    /\ cl.days >= 0
    /\ SnapRoot = "dir"

\* C29: CleanWorktrees with dryRun=true and an existing worktreeRoot returns
\* 'git directory not found' when repoPath has no .git entry, because the
\* marker check precedes the dry-run skip, and returns success when repoPath
\* has the entry; in both cases nothing has been removed when it returns.
C29_DryRunMarkerCheck ==
    DryRunReturned =>
        /\ cl.err = IF SnapRepo.gitDir THEN "" ELSE "GitDirNotFound"
        /\ fsVars = drv.snap

\* a dry run that counted a directory old enough to be removed, left it in
\* place and returned the error for the missing .git entry
C29_Witness ==
    /\ DryRunReturned
    /\ ~SnapRepo.gitDir
    /\ cl.err = "GitDirNotFound"
    /\ cl.removedCount >= 1
    /\ Reclaimable(SnapEntries, cl.days) # {}
    /\ entries = SnapEntries
=============================================================================
